---- MODULE Spec2Model ----
(***************************************************************************)
(* A model of updater.js: the per-day export pipeline                      *)
(* (store cursor -> transform -> CSV stringifier -> write stream -> S3     *)
(* upload -> unlink), the enumeration of the day tasks, async.series and   *)
(* the process watchdog.                                                   *)
(* Spec follows a whole run and counts the records of a day; SpecPipe      *)
(* follows the records of one day through the pipe chain; SpecLive is Spec *)
(* with the scheduling the event loop guarantees.                          *)
(*                                                                         *)
(* Time is counted in ticks; TicksPerDay ticks make one UTC calendar day.  *)
(* A moment value is the tick it denotes; the process runs with its local  *)
(* zone set to UTC.  A calendar day (and a file name `<day>.csv`) is the   *)
(* day number  tick \div TicksPerDay.                                      *)
(***************************************************************************)
EXTENDS Integers, Sequences, FiniteSets, TLC

\* ---------------------------------------------------------------- bounds
TicksPerDay == 2
\* the day number of the wall clock when the process starts
Today == 10
\* START_DATE lies at most this many days before Today
HistoryDays == 1
\* a store cursor emits at most this many records for one day
MaxRecords == 2

\* PROCESS_TIMEOUT, in ticks
ProcessTimeout == 2

NotExited == -1
NoError == "none"
StoreQueryError == "StoreQueryError"
EncodingError == "EncodingError"
FileIOError == "FileIOError"
UploadError == "UploadError"

VARIABLES
  clock,      \* the wall clock (what moment() reads)
  argv2,      \* process.argv[2]: "all" or anything else ("")
  startDate,  \* START_DATE, a day number
  pc,         \* position of the synchronous top-level code
  date,       \* the one moment object bound to `date` (mutated in place)
  endDate,    \* const endDate
  tasks,      \* the task list handed to series, with each task's pipeline
  files,      \* the local files that exist (day numbers)
  wdState,    \* the watchdog timer: "unarmed", "armed", "fired"
  wdArmed,    \* number of setTimeout calls made for the watchdog
  wdDeadline, \* the tick at which the armed timer is due
  exitCode,   \* the process's exit status, NotExited while it runs
  exits       \* number of times the process terminated

\* The contents that flow through one day's pipe chain (lines 148-151).
\* The run above only counts them; the chain is followed record by record
\* in SpecPipe below.
VARIABLES
  src,        \* the chunks the store cursor has still to emit
  emitted,    \* the chunks emitted so far, as they were when emitted
  after,      \* the same chunk objects as transform left them
  outs,       \* what transform did with each emitted chunk
  tbuf,       \* flattened records pushed by through2, not yet encoded
  sbuf,       \* CSV rows pushed by the stringifier, not yet written
  fileRows,   \* the rows written to the local file
  pstate,     \* headerDone, cursorEnded, encoderEnded, finished, crashed
  again       \* result of handing a flattened record to transform again

mainVars == <<clock, argv2, startDate, pc, date, endDate, tasks, files,
              wdState, wdArmed, wdDeadline, exitCode, exits>>
pipeVars == <<src, emitted, after, outs, tbuf, sbuf, fileRows, pstate, again>>
vars == <<clock, argv2, startDate, pc, date, endDate, tasks, files,
          wdState, wdArmed, wdDeadline, exitCode, exits,
          src, emitted, after, outs, tbuf, sbuf, fileRows, pstate, again>>

\* ------------------------------------------------------ moment operations
Subtract1Day(d) == d - TicksPerDay
Add1Day(d) == d + TicksPerDay
StartOfDay(d) == (d \div TicksPerDay) * TicksPerDay
EndOfDay(d) == StartOfDay(d) + TicksPerDay - 1
FormatDay(d) == d \div TicksPerDay

\* a task as pushed by the enumeration loop: nothing of it has run yet
NewTask(d) ==
  [pushedAt |-> d,      \* value of `date` when the closure was pushed
   calls |-> 0,         \* number of times series called the task
   ref |-> 0,           \* value of `date` the task read when it was called
   cursor |-> "idle",   \* store stream: idle, open, ended, errored
   lo |-> 0, hi |-> 0,  \* the whereBetween bounds
   file |-> 0,          \* the file name (a day number)
   wstream |-> "idle",  \* idle, opening, open, finished, errored
   fileMade |-> FALSE,  \* the open of createWriteStream created the file
   upload |-> "none",   \* none, inflight, ended, errored
   emitted |-> 0,       \* records the cursor emitted
   rows |-> 0,          \* data rows handed to the write stream
   unlinks |-> 0,       \* unlinkSync calls that removed the file
   fault |-> "none",    \* the stage that failed: store, transform,
                        \* encoding, file, upload
   cbs |-> 0,           \* number of invocations of the completion callback
   cb |-> "none",       \* completion callback: none, ok, err
   err |-> NoError]

Running == pc = "async" /\ exitCode = NotExited
TaskIds == 1..Len(tasks)
Started(t) == t.cursor # "idle"
Terminal(t) == t.cb # "none"

\* a pipe chain through which nothing has flowed yet
PipeFresh ==
  /\ emitted = <<>>
  /\ after = <<>>
  /\ outs = <<>>
  /\ tbuf = <<>>
  /\ sbuf = <<>>
  /\ fileRows = <<>>
  /\ pstate = [headerDone |-> FALSE, cursorEnded |-> FALSE,
               encoderEnded |-> FALSE, finished |-> FALSE, crashed |-> FALSE]
  /\ again = <<>>

Init ==
  /\ src = <<>>
  /\ PipeFresh
  /\ clock \in (Today * TicksPerDay)..(Today * TicksPerDay + TicksPerDay - 1)
  /\ argv2 \in {"all", ""}
  /\ startDate \in (Today - HistoryDays)..(Today + 1)
  /\ pc = "boot"
  /\ date = 0
  /\ endDate = 0
  /\ tasks = <<>>
  /\ files = {}
  /\ wdState = "unarmed"
  /\ wdArmed = 0
  /\ wdDeadline = 0
  /\ exitCode = NotExited
  /\ exits = 0

\* ---------------------------------------------------------------- watchdog
\* setTimeout(..., processTimeout) at module load
ArmWatchdog ==
  /\ pc = "boot"
  /\ pc' = "argv"
  /\ wdState' = "armed"
  /\ wdArmed' = wdArmed + 1
  /\ wdDeadline' = clock + ProcessTimeout
  /\ UNCHANGED <<clock, argv2, startDate, date, endDate, tasks, files, exitCode, exits>>
  /\ UNCHANGED pipeVars

\* time passes; the clock is not followed beyond the timer's due time
Tick ==
  /\ exitCode = NotExited
  /\ wdState = "armed"
  /\ clock < wdDeadline
  /\ clock' = clock + 1
  /\ UNCHANGED <<argv2, startDate, pc, date, endDate, tasks, files,
                 wdState, wdArmed, wdDeadline, exitCode, exits>>
  /\ UNCHANGED pipeVars

\* variant: the timer callback logs and returns
WatchdogFire_logOnly ==
  /\ Running
  /\ wdState = "armed"
  /\ clock >= wdDeadline
  /\ wdState' = "fired"
  /\ UNCHANGED <<clock, argv2, startDate, pc, date, endDate, tasks, files,
                 wdArmed, wdDeadline, exitCode, exits>>
  /\ UNCHANGED pipeVars

\* the timer callback: console.error, process.exit(1).  It runs only from
\* the event loop, i.e. once the synchronous top-level code has returned.
WatchdogFire ==
  /\ Running
  /\ wdState = "armed"
  /\ clock >= wdDeadline
  /\ wdState' = "fired"
  /\ exitCode' = 1
  /\ exits' = exits + 1
  /\ UNCHANGED <<clock, argv2, startDate, pc, date, endDate, tasks, files,
                 wdArmed, wdDeadline>>
  /\ UNCHANGED pipeVars

\* ------------------------------------------------------------- enumeration
\* lines 155-162
ChooseInitialDate ==
  /\ pc = "argv"
  /\ pc' = "endDate"
  /\ date' = IF argv2 = "all"
             THEN startDate * TicksPerDay
             ELSE clock - 2 * TicksPerDay
  /\ UNCHANGED <<clock, argv2, startDate, endDate, tasks, files,
                 wdState, wdArmed, wdDeadline, exitCode, exits>>
  /\ UNCHANGED pipeVars

\* line 166
ReadEndDate ==
  /\ pc = "endDate"
  /\ pc' = "loop"
  /\ endDate' = clock
  /\ UNCHANGED <<clock, argv2, startDate, date, tasks, files,
                 wdState, wdArmed, wdDeadline, exitCode, exits>>
  /\ UNCHANGED pipeVars

\* one iteration of the while loop: the closure captures the variable
\* `date`, and date.add mutates the one moment object in place
PushTask ==
  /\ pc = "loop"
  /\ date < endDate
  /\ tasks' = Append(tasks, NewTask(date))
  /\ date' = Add1Day(date)
  /\ UNCHANGED <<clock, argv2, startDate, pc, endDate, files,
                 wdState, wdArmed, wdDeadline, exitCode, exits>>
  /\ UNCHANGED pipeVars

\* ------------------------------------------------------------ one day task
\* variant: the upper bound is the start of the following day
getAndUploadData_halfOpen(k, st) ==
  LET yesterday == Subtract1Day(st.date)
      lo == StartOfDay(yesterday)
      hi == StartOfDay(Add1Day(lo))
  IN [date |-> hi,
      tasks |-> [st.tasks EXCEPT ![k] =
                   [@ EXCEPT !.calls = @ + 1, !.ref = st.date,
                             !.cursor = "open", !.lo = lo, !.hi = hi,
                             !.file = FormatDay(hi), !.wstream = "opening"]]]

\* variant: the task works on a clone of the date it is handed
getAndUploadData_clone(k, st) ==
  LET yesterday == Subtract1Day(st.date)
      lo == StartOfDay(yesterday)
      hi == EndOfDay(lo)
  IN [date |-> st.date,
      tasks |-> [st.tasks EXCEPT ![k] =
                   [@ EXCEPT !.calls = @ + 1, !.ref = st.date,
                             !.cursor = "open", !.lo = lo, !.hi = hi,
                             !.file = FormatDay(hi), !.wstream = "opening"]]]

\* The synchronous body of getAndUploadData for task k (lines 72-151), run
\* on the shared moment value st.date: subtract, startOf and endOf all
\* mutate that one value; the cursor is opened and createWriteStream called.
getAndUploadData(k, st) ==
  LET yesterday == Subtract1Day(st.date)
      lo == StartOfDay(yesterday)
      hi == EndOfDay(lo)
  IN [date |-> hi,
      tasks |-> [st.tasks EXCEPT ![k] =
                   [@ EXCEPT !.calls = @ + 1, !.ref = st.date,
                             !.cursor = "open", !.lo = lo, !.hi = hi,
                             !.file = FormatDay(hi), !.wstream = "opening"]]]

\* variant: the error branch only logs and the process goes on
FinalCallback_logOnly(err) == IF err # NoError THEN NotExited ELSE 0

\* variant: the error branch does not exit, and control reaches exit(0)
FinalCallback_zero(err) == 0

\* the final callback handed to series: exit(1) on an error, else exit(0)
FinalCallback(err) == IF err # NoError THEN 1 ELSE 0

\* variant: the scheduler goes on with the next task after a failed one
TaskDone_continue(k, err, ts) ==
  LET done == [ts EXCEPT ![k].cb = IF err = NoError THEN "ok" ELSE "err",
                         ![k].err = err, ![k].cbs = @ + 1]
  IN /\ IF k = Len(ts)
        THEN /\ tasks' = done
             /\ date' = date
             /\ exitCode' = FinalCallback(err)
             /\ exits' = exits + 1
        ELSE LET nxt == getAndUploadData(k + 1, [date |-> date, tasks |-> done])
             IN /\ tasks' = nxt.tasks
                /\ date' = nxt.date
                /\ UNCHANGED <<exitCode, exits>>
     /\ UNCHANGED <<wdState, wdArmed, wdDeadline>>

\* variant: every task completion sets the watchdog timer anew
TaskDone_rearm(k, err, ts) ==
  LET done == [ts EXCEPT ![k].cb = IF err = NoError THEN "ok" ELSE "err",
                         ![k].err = err, ![k].cbs = @ + 1]
  IN /\ IF err # NoError \/ k = Len(ts)
        THEN /\ tasks' = done
             /\ date' = date
             /\ exitCode' = FinalCallback(err)
             /\ exits' = exits + 1
        ELSE LET nxt == getAndUploadData(k + 1, [date |-> date, tasks |-> done])
             IN /\ tasks' = nxt.tasks
                /\ date' = nxt.date
                /\ UNCHANGED <<exitCode, exits>>
     /\ wdState' = wdState
     /\ wdArmed' = wdArmed + 1
     /\ wdDeadline' = clock + ProcessTimeout

\* Task k invokes its completion callback with err, on the task list ts:
\* the wrapper passes err to series, which on an error (or after the last
\* task) runs the final callback and otherwise calls the next task.  No
\* timer is touched.
TaskDone(k, err, ts) ==
  LET done == [ts EXCEPT ![k].cb = IF err = NoError THEN "ok" ELSE "err",
                         ![k].err = err, ![k].cbs = @ + 1]
  IN /\ IF err # NoError \/ k = Len(ts)
        THEN /\ tasks' = done
             /\ date' = date
             /\ exitCode' = FinalCallback(err)
             /\ exits' = exits + 1
        ELSE LET nxt == getAndUploadData(k + 1, [date |-> date, tasks |-> done])
             IN /\ tasks' = nxt.tasks
                /\ date' = nxt.date
                /\ UNCHANGED <<exitCode, exits>>
     /\ UNCHANGED <<wdState, wdArmed, wdDeadline>>

\* an exception thrown inside an event handler is not caught by anything:
\* the process dies with status 1 and no callback is invoked
Uncaught(ts) ==
  /\ tasks' = ts
  /\ exitCode' = 1
  /\ exits' = exits + 1
  /\ UNCHANGED <<date, wdState, wdArmed, wdDeadline>>

\* variant: the tasks are called without waiting for one another
SeriesStart_parallel ==
  /\ pc = "loop"
  /\ ~(date < endDate)
  /\ pc' = "async"
  /\ IF Len(tasks) = 0
     THEN /\ exitCode' = FinalCallback(NoError)
          /\ exits' = exits + 1
          /\ UNCHANGED <<tasks, date>>
     ELSE LET n1 == getAndUploadData(1, [date |-> date, tasks |-> tasks])
              n2 == IF Len(tasks) >= 2 THEN getAndUploadData(2, n1) ELSE n1
          IN /\ tasks' = n2.tasks
             /\ date' = n2.date
             /\ UNCHANGED <<exitCode, exits>>
  /\ UNCHANGED <<clock, argv2, startDate, endDate, files,
                 wdState, wdArmed, wdDeadline>>
  /\ UNCHANGED pipeVars

\* the loop ends and series(tasks, final) is called: with no task the final
\* callback runs at once, else the first task is called
SeriesStart ==
  /\ pc = "loop"
  /\ ~(date < endDate)
  /\ pc' = "async"
  /\ IF Len(tasks) = 0
     THEN /\ exitCode' = FinalCallback(NoError)
          /\ exits' = exits + 1
          /\ UNCHANGED <<tasks, date>>
     ELSE LET nxt == getAndUploadData(1, [date |-> date, tasks |-> tasks])
          IN /\ tasks' = nxt.tasks
             /\ date' = nxt.date
             /\ UNCHANGED <<exitCode, exits>>
  /\ UNCHANGED <<clock, argv2, startDate, endDate, files,
                 wdState, wdArmed, wdDeadline>>
  /\ UNCHANGED pipeVars

\* fs opens the file of createWriteStream: the file now exists
WstreamOpen(k) ==
  /\ Running
  /\ tasks[k].wstream = "opening"
  /\ tasks' = [tasks EXCEPT ![k].wstream = "open", ![k].fileMade = TRUE]
  /\ files' = files \cup {tasks[k].file}
  /\ UNCHANGED <<clock, argv2, startDate, pc, date, endDate,
                 wdState, wdArmed, wdDeadline, exitCode, exits>>
  /\ UNCHANGED pipeVars

\* the cursor emits a record that carries `date`: transform flattens it,
\* the stringifier encodes it and the row is handed to the write stream
StreamData(k) ==
  /\ Running
  /\ tasks[k].cursor = "open"
  /\ tasks[k].emitted < MaxRecords
  /\ tasks' = [tasks EXCEPT ![k].emitted = @ + 1, ![k].rows = @ + 1]
  /\ UNCHANGED <<clock, argv2, startDate, pc, date, endDate, files,
                 wdState, wdArmed, wdDeadline, exitCode, exits>>
  /\ UNCHANGED pipeVars

\* the cursor emits a record without `date`: data.date.utc throws a
\* TypeError inside transform
TransformThrows(k) ==
  /\ Running
  /\ tasks[k].cursor = "open"
  /\ tasks[k].emitted < MaxRecords
  /\ Uncaught([tasks EXCEPT ![k].emitted = @ + 1, ![k].fault = "transform"])
  /\ UNCHANGED <<clock, argv2, startDate, pc, endDate, files>>
  /\ UNCHANGED pipeVars

\* the cursor ends; end propagates down the pipes to wstream.end()
StreamEnd(k) ==
  /\ Running
  /\ tasks[k].cursor = "open"
  /\ tasks' = [tasks EXCEPT ![k].cursor = "ended"]
  /\ UNCHANGED <<clock, argv2, startDate, pc, date, endDate, files,
                 wdState, wdArmed, wdDeadline, exitCode, exits>>
  /\ UNCHANGED pipeVars

\* variant: the store error is only logged
StreamError_logOnly(k) ==
  /\ Running
  /\ tasks[k].cursor = "open"
  /\ tasks' = [tasks EXCEPT ![k].cursor = "errored", ![k].fault = "store"]
  /\ UNCHANGED <<clock, argv2, startDate, pc, date, endDate, files,
                 wdState, wdArmed, wdDeadline, exitCode, exits>>
  /\ UNCHANGED pipeVars

\* stream.on('error'): cb(err)
StreamError(k) ==
  /\ Running
  /\ tasks[k].cursor = "open"
  /\ TaskDone(k, StoreQueryError,
              [tasks EXCEPT ![k].cursor = "errored", ![k].fault = "store"])
  /\ UNCHANGED <<clock, argv2, startDate, pc, endDate, files>>
  /\ UNCHANGED pipeVars

\* stringifier.on('error'): cb(err), raised while a record is encoded
StringifierError(k) ==
  /\ Running
  /\ tasks[k].cursor = "open"
  /\ tasks[k].emitted < MaxRecords
  /\ TaskDone(k, EncodingError,
              [tasks EXCEPT ![k].emitted = @ + 1, ![k].fault = "encoding"])
  /\ UNCHANGED <<clock, argv2, startDate, pc, endDate, files>>
  /\ UNCHANGED pipeVars

\* wstream.on('error'): cb(err); the open or a write failed
WstreamError(k) ==
  /\ Running
  /\ tasks[k].wstream \in {"opening", "open"}
  /\ TaskDone(k, FileIOError,
              [tasks EXCEPT ![k].wstream = "errored", ![k].fault = "file"])
  /\ UNCHANGED <<clock, argv2, startDate, pc, endDate, files>>
  /\ UNCHANGED pipeVars

\* variant: a file without data rows is removed and the task completes
\* without an upload
WstreamFinish_shortCircuit(k) ==
  /\ Running
  /\ tasks[k].wstream = "open"
  /\ tasks[k].cursor = "ended"
  /\ IF tasks[k].rows = 0
     THEN /\ files' = files \ {tasks[k].file}
          /\ TaskDone(k, NoError, [tasks EXCEPT ![k].wstream = "finished"])
     ELSE /\ tasks' = [tasks EXCEPT ![k].wstream = "finished", ![k].upload = "inflight"]
          /\ UNCHANGED <<date, files, wdState, wdArmed, wdDeadline, exitCode, exits>>
  /\ UNCHANGED <<clock, argv2, startDate, pc, endDate>>
  /\ UNCHANGED pipeVars

\* wstream.on('finish'): everything is flushed; uploadToS3(file, ...)
WstreamFinish(k) ==
  /\ Running
  /\ tasks[k].wstream = "open"
  /\ tasks[k].cursor = "ended"
  /\ tasks' = [tasks EXCEPT ![k].wstream = "finished", ![k].upload = "inflight"]
  /\ UNCHANGED <<clock, argv2, startDate, pc, date, endDate, files,
                 wdState, wdArmed, wdDeadline, exitCode, exits>>
  /\ UNCHANGED pipeVars

\* variant: a failed upload is reported before the file is removed
UploadConcluded_keepOnError(k, err) ==
  LET ts == [tasks EXCEPT ![k].upload = IF err = NoError THEN "ended" ELSE "errored",
                          ![k].fault = IF err = NoError THEN @ ELSE "upload"]
  IN IF err # NoError
     THEN /\ files' = files
          /\ TaskDone(k, err, ts)
     ELSE IF tasks[k].file \in files
     THEN /\ files' = files \ {tasks[k].file}
          /\ TaskDone(k, err, [ts EXCEPT ![k].unlinks = @ + 1])
     ELSE /\ files' = files
          /\ Uncaught(ts)

\* The callback given to uploadToS3, called with err once the uploader
\* emitted 'end' or 'error': unlinkSync(file), then cb(err).  unlinkSync
\* throws when the file is gone.
UploadConcluded(k, err) ==
  LET ts == [tasks EXCEPT ![k].upload = IF err = NoError THEN "ended" ELSE "errored",
                          ![k].fault = IF err = NoError THEN @ ELSE "upload"]
  IN IF tasks[k].file \in files
     THEN /\ files' = files \ {tasks[k].file}
          /\ TaskDone(k, err, [ts EXCEPT ![k].unlinks = @ + 1])
     ELSE /\ files' = files
          /\ Uncaught(ts)

\* uploader.on('end')
UploadEnd(k) ==
  /\ Running
  /\ tasks[k].upload = "inflight"
  /\ UploadConcluded(k, NoError)
  /\ UNCHANGED <<clock, argv2, startDate, pc, endDate>>
  /\ UNCHANGED pipeVars

\* uploader.on('error')
UploadFail(k) ==
  /\ Running
  /\ tasks[k].upload = "inflight"
  /\ UploadConcluded(k, UploadError)
  /\ UNCHANGED <<clock, argv2, startDate, pc, endDate>>
  /\ UNCHANGED pipeVars

\* another actor removes one of the local files
ExternalUnlink(f) ==
  /\ Running
  /\ f \in files
  /\ files' = files \ {f}
  /\ UNCHANGED <<clock, argv2, startDate, pc, date, endDate, tasks,
                 wdState, wdArmed, wdDeadline, exitCode, exits>>
  /\ UNCHANGED pipeVars

Next ==
  \/ ArmWatchdog
  \/ Tick
  \/ WatchdogFire
  \/ ChooseInitialDate
  \/ ReadEndDate
  \/ PushTask
  \/ SeriesStart
  \/ \E k \in TaskIds : WstreamOpen(k)
  \/ \E k \in TaskIds : StreamData(k)
  \/ \E k \in TaskIds : StreamEnd(k)
  \/ \E k \in TaskIds : StreamError(k)
  \/ \E k \in TaskIds : StringifierError(k)
  \/ \E k \in TaskIds : WstreamError(k)
  \/ \E k \in TaskIds : TransformThrows(k)
  \/ \E k \in TaskIds : WstreamFinish(k)
  \/ \E k \in TaskIds : UploadEnd(k)
  \/ \E k \in TaskIds : UploadFail(k)
  \/ \E f \in files : ExternalUnlink(f)

Spec == Init /\ [][Next]_vars

\* The scheduling the run can rely on: the synchronous top-level code runs
\* to its end, time passes, and a due timer is fired by the event loop.
\* Nothing is assumed of the store, the file system or the upload.
SyncSteps ==
  ArmWatchdog \/ ChooseInitialDate \/ ReadEndDate \/ PushTask \/ SeriesStart

SpecLive ==
  /\ Spec
  /\ WF_vars(SyncSteps)
  /\ WF_vars(Tick)
  /\ WF_vars(WatchdogFire)

\* ============================================== one day's pipe chain
\* An object is a function from its own keys to their values; a key that is
\* not in the domain is undefined.
Put(obj, key, val) ==
  [x \in (DOMAIN obj) \cup {key} |-> IF x = key THEN val ELSE obj[x]]
Delete(obj, key) == [x \in (DOMAIN obj) \ {key} |-> obj[x]]
Has(obj, key) == key \in DOMAIN obj

\* options.columns
Columns ==
  <<"location", "city", "country", "utc", "local", "parameter", "value",
    "unit", "latitude", "longitude", "attribution">>

\* The rows of `measurements` a cursor can emit: the measured value and the
\* instant vary, `date` and `coordinates` may be missing.
Values == {"v1", "v2"}
DateOf(v) == IF v = "v1" THEN [utc |-> "u1", local |-> "l1"]
                         ELSE [utc |-> "u2", local |-> "l2"]
CoordsOf(v) == IF v = "v1" THEN [latitude |-> "lat1", longitude |-> "lon1"]
                           ELSE [latitude |-> "lat2", longitude |-> "lon2"]
BaseData(v) ==
  [x \in {"location", "city", "country", "parameter", "value", "unit",
          "attribution"} |->
     CASE x = "location" -> "loc"
       [] x = "city" -> "cty"
       [] x = "country" -> "cc"
       [] x = "parameter" -> "pm25"
       [] x = "value" -> v
       [] x = "unit" -> "ug"
       [] OTHER -> "att"]
RawData(v, withDate, withCoords) ==
  LET d1 == IF withDate THEN Put(BaseData(v), "date", DateOf(v)) ELSE BaseData(v)
  IN IF withCoords THEN Put(d1, "coordinates", CoordsOf(v)) ELSE d1
Chunks ==
  {[data |-> RawData(v, wd, wc)] : v \in Values, wd \in BOOLEAN, wc \in BOOLEAN}

\* sequences over S of length at most n
RECURSIVE SeqsUpTo(_, _)
SeqsUpTo(S, n) ==
  IF n = 0 THEN {<<>>}
  ELSE LET shorter == SeqsUpTo(S, n - 1)
       IN shorter \cup {Append(q, x) : q \in shorter, x \in S}

\* variant: the chunk's own data object is flattened, without a copy
transform_noCopy(chunk) ==
  LET data0 == chunk.data
  IN IF ~Has(data0, "date")
     THEN [threw |-> TRUE, pushed |-> FALSE, chunk |-> chunk, data |-> data0]
     ELSE LET data1 == Put(data0, "utc", data0["date"].utc)
              data2 == Put(data1, "local", data0["date"].local)
              data3 == Delete(data2, "date")
              data4 == IF Has(data3, "coordinates")
                       THEN Delete(Put(Put(data3, "latitude", data3["coordinates"].latitude),
                                       "longitude", data3["coordinates"].longitude),
                                   "coordinates")
                       ELSE data3
          IN [threw |-> FALSE, pushed |-> TRUE, chunk |-> [data |-> data4],
              data |-> data4]

\* variant: a record without coordinates is not passed on
transform_dropNoCoords(chunk) ==
  LET data0 == chunk.data
  IN IF ~Has(data0, "date")
     THEN [threw |-> TRUE, pushed |-> FALSE, chunk |-> chunk, data |-> data0]
     ELSE LET data1 == Put(data0, "utc", data0["date"].utc)
              data2 == Put(data1, "local", data0["date"].local)
              data3 == Delete(data2, "date")
          IN IF Has(data3, "coordinates")
             THEN [threw |-> FALSE, pushed |-> TRUE, chunk |-> chunk,
                   data |-> Delete(Put(Put(data3, "latitude", data3["coordinates"].latitude),
                                       "longitude", data3["coordinates"].longitude),
                                   "coordinates")]
             ELSE [threw |-> FALSE, pushed |-> FALSE, chunk |-> chunk, data |-> data3]

\* transform (lines 90-111) applied to the object chunk: data is a shallow
\* copy of chunk.data; data.date.utc throws when data.date is undefined;
\* cb(null, data) passes the copy on.  The result tells whether it threw,
\* whether a record was passed on, the chunk object as it is afterwards and
\* the record.
transform(chunk) ==
  LET data0 == chunk.data
  IN IF ~Has(data0, "date")
     THEN [threw |-> TRUE, pushed |-> FALSE, chunk |-> chunk, data |-> data0]
     ELSE LET data1 == Put(data0, "utc", data0["date"].utc)
              data2 == Put(data1, "local", data0["date"].local)
              data3 == Delete(data2, "date")
              data4 == IF Has(data3, "coordinates")
                       THEN Delete(Put(Put(data3, "latitude", data3["coordinates"].latitude),
                                       "longitude", data3["coordinates"].longitude),
                                   "coordinates")
                       ELSE data3
          IN [threw |-> FALSE, pushed |-> TRUE, chunk |-> chunk, data |-> data4]

\* the stringifier's row for a record: one cell per column, empty for a
\* field the record does not have
Row(rec) ==
  [i \in 1..Len(Columns) |-> IF Has(rec, Columns[i]) THEN rec[Columns[i]] ELSE ""]
\* header: true
HeaderRow == Columns

PipeAlive == ~pstate.crashed /\ ~pstate.finished

PipeInit ==
  /\ src \in SeqsUpTo(Chunks, MaxRecords)
  /\ PipeFresh
  /\ clock = Today * TicksPerDay
  /\ argv2 = ""
  /\ startDate = Today
  /\ pc = "boot"
  /\ date = 0
  /\ endDate = 0
  /\ tasks = <<>>
  /\ files = {}
  /\ wdState = "unarmed"
  /\ wdArmed = 0
  /\ wdDeadline = 0
  /\ exitCode = NotExited
  /\ exits = 0

\* the cursor emits its next chunk into through2, which runs transform
PipeEmit ==
  /\ PipeAlive
  /\ src # <<>>
  /\ LET res == transform(Head(src))
     IN /\ src' = Tail(src)
        /\ emitted' = Append(emitted, Head(src))
        /\ after' = Append(after, res.chunk)
        /\ outs' = Append(outs, res)
        /\ tbuf' = IF res.pushed THEN Append(tbuf, res.data) ELSE tbuf
        /\ pstate' = [pstate EXCEPT !.crashed = res.threw]
  /\ UNCHANGED <<sbuf, fileRows, again>>
  /\ UNCHANGED mainVars

\* the stringifier takes the next flattened record and pushes its row,
\* after the header when it is the first one
PipeEncode ==
  /\ PipeAlive
  /\ tbuf # <<>>
  /\ sbuf' = IF pstate.headerDone
             THEN Append(sbuf, Row(Head(tbuf)))
             ELSE sbuf \o <<HeaderRow, Row(Head(tbuf))>>
  /\ tbuf' = Tail(tbuf)
  /\ pstate' = [pstate EXCEPT !.headerDone = TRUE]
  /\ UNCHANGED <<src, emitted, after, outs, fileRows, again>>
  /\ UNCHANGED mainVars

\* the write stream writes the next row to the file
PipeWrite ==
  /\ PipeAlive
  /\ sbuf # <<>>
  /\ fileRows' = Append(fileRows, Head(sbuf))
  /\ sbuf' = Tail(sbuf)
  /\ UNCHANGED <<src, emitted, after, outs, tbuf, pstate, again>>
  /\ UNCHANGED mainVars

\* the cursor has no more rows: 'end'
PipeCursorEnd ==
  /\ PipeAlive
  /\ src = <<>>
  /\ ~pstate.cursorEnded
  /\ pstate' = [pstate EXCEPT !.cursorEnded = TRUE]
  /\ UNCHANGED <<src, emitted, after, outs, tbuf, sbuf, fileRows, again>>
  /\ UNCHANGED mainVars

\* end reaches the stringifier once it has taken every record: it flushes,
\* pushing the header if it has not written any row
PipeEncoderEnd ==
  /\ PipeAlive
  /\ pstate.cursorEnded
  /\ tbuf = <<>>
  /\ ~pstate.encoderEnded
  /\ sbuf' = IF pstate.headerDone THEN sbuf ELSE Append(sbuf, HeaderRow)
  /\ pstate' = [pstate EXCEPT !.encoderEnded = TRUE, !.headerDone = TRUE]
  /\ UNCHANGED <<src, emitted, after, outs, tbuf, fileRows, again>>
  /\ UNCHANGED mainVars

\* end reaches the write stream once every row is written: 'finish'
PipeFinish ==
  /\ PipeAlive
  /\ pstate.encoderEnded
  /\ sbuf = <<>>
  /\ pstate' = [pstate EXCEPT !.finished = TRUE]
  /\ UNCHANGED <<src, emitted, after, outs, tbuf, sbuf, fileRows, again>>
  /\ UNCHANGED mainVars

\* transform is handed, once, a record it has flattened before
TransformAgain ==
  /\ ~pstate.crashed
  /\ again = <<>>
  /\ \E i \in 1..Len(outs) :
       /\ outs[i].pushed
       /\ again' = <<[input |-> outs[i].data,
                      res |-> transform([data |-> outs[i].data])]>>
  /\ UNCHANGED <<src, emitted, after, outs, tbuf, sbuf, fileRows, pstate>>
  /\ UNCHANGED mainVars

PipeNext ==
  \/ PipeEmit
  \/ PipeEncode
  \/ PipeWrite
  \/ PipeCursorEnd
  \/ PipeEncoderEnd
  \/ PipeFinish
  \/ TransformAgain

SpecPipe == PipeInit /\ [][PipeNext]_vars

\* ================================================================ properties
InFlight(t) == Started(t) /\ ~Terminal(t)
Exited == exitCode # NotExited

\* C1: once a task has invoked its completion callback with an error, the
\* process has exited with status 1 and no later task of the list has been
\* started.
C1_FailFast ==
  \A k \in TaskIds :
    tasks[k].cb = "err" =>
      /\ exitCode = 1
      /\ \A j \in TaskIds : j > k => ~Started(tasks[j])

\* a task that has a successor failed
C1_Witness ==
  \E k \in TaskIds : k < Len(tasks) /\ tasks[k].cb = "err"

\* C2: at most one task is started and not terminal (hence at most one open
\* cursor, one open write stream and one upload in flight), and a task is
\* started only when its predecessor has invoked its callback.
C2_NoOverlap ==
  /\ Cardinality({k \in TaskIds : InFlight(tasks[k])}) <= 1
  /\ Cardinality({k \in TaskIds : tasks[k].cursor = "open"}) <= 1
  /\ Cardinality({k \in TaskIds : tasks[k].wstream \in {"opening", "open"}
                                  /\ ~Terminal(tasks[k])}) <= 1
  /\ Cardinality({k \in TaskIds : tasks[k].upload = "inflight"}) <= 1
  /\ \A k \in TaskIds :
       (k > 1 /\ Started(tasks[k])) => tasks[k - 1].cb = "ok"

\* a second task is running
C2_Witness ==
  \E k \in TaskIds : k >= 2 /\ InFlight(tasks[k]) /\ tasks[k].upload = "inflight"

\* C3 (as claimed): of two consecutive started tasks the earlier one exports
\* the earlier day.
C3_AscendingDays ==
  \A k \in TaskIds :
    (k > 1 /\ Started(tasks[k])) =>
      /\ tasks[k - 1].file < tasks[k].file
      /\ FormatDay(tasks[k - 1].lo) < FormatDay(tasks[k].lo)

\* C4 (as claimed): the task pushed for date d queries the window of the
\* day d-1 and names its file after d-1.
C4_ExportsDayBeforeItsDate ==
  \A k \in TaskIds :
    Started(tasks[k]) =>
      /\ tasks[k].file = FormatDay(tasks[k].pushedAt) - 1
      /\ tasks[k].lo = StartOfDay(Subtract1Day(tasks[k].pushedAt))
      /\ tasks[k].hi = EndOfDay(Subtract1Day(tasks[k].pushedAt))

C6_EventOrder ==
  \A k \in TaskIds :
    /\ tasks[k].upload # "none" => tasks[k].wstream = "finished"
    /\ tasks[k].unlinks > 0 => tasks[k].upload \in {"ended", "errored"}
    /\ (tasks[k].cb = "ok" \/ (tasks[k].cb = "err" /\ tasks[k].err = UploadError)) =>
         /\ tasks[k].upload \in {"ended", "errored"}
         /\ tasks[k].unlinks = 1
         /\ tasks[k].file \notin files

\* an upload failure has been reported
C6_Witness ==
  \E k \in TaskIds :
    tasks[k].cb = "err" /\ tasks[k].err = UploadError /\ tasks[k].rows >= 1

\* C7 (as claimed): a task removes its file at most once, and once the task
\* is terminal or the process has exited its file does not exist and, if it
\* was created, has been removed by the task.
C7_CleanupEveryOutcome ==
  \A k \in TaskIds :
    /\ tasks[k].unlinks <= 1
    /\ (Started(tasks[k]) /\ (Terminal(tasks[k]) \/ Exited)) =>
         /\ tasks[k].file \notin files
         /\ tasks[k].fileMade => tasks[k].unlinks = 1

\* C8: a task whose cursor emitted an error has failed with that store
\* error, has never started an upload, and the process has exited with 1.
C8_StoreError ==
  \A k \in TaskIds :
    tasks[k].cursor = "errored" =>
      /\ tasks[k].cb = "err"
      /\ tasks[k].err = StoreQueryError
      /\ tasks[k].upload = "none"
      /\ exitCode = 1

\* the cursor failed after a record
C8_Witness ==
  \E k \in TaskIds : tasks[k].cursor = "errored" /\ tasks[k].emitted >= 1

\* C9: the process terminates at most once; its status is 0 exactly when
\* series was called and every task invoked its callback without an error,
\* which excludes a fired watchdog and a task in flight; it is 1 once a task
\* failed or the watchdog fired.
C9_ExitStatus ==
  /\ exits <= 1
  /\ Exited <=> exits = 1
  /\ exitCode \in {NotExited, 0, 1}
  /\ exitCode = 0 <=> (pc = "async" /\ \A k \in TaskIds : tasks[k].cb = "ok")
  /\ exitCode = 0 =>
       (wdState # "fired" /\ \A k \in TaskIds : ~InFlight(tasks[k]))
  /\ ((\E k \in TaskIds : tasks[k].cb = "err") \/ wdState = "fired") => exitCode = 1

\* a run of several days has exited with 0
C9_Witness ==
  exitCode = 0 /\ Len(tasks) >= 2

\* C10, state part: a task is started only with the watchdog armed once; a
\* fired watchdog means status 1; a due watchdog can fire in any stage.
C10_State ==
  /\ (\E k \in TaskIds : Started(tasks[k])) => wdArmed = 1
  /\ wdState = "fired" => exitCode = 1
  /\ (Running /\ clock >= wdDeadline) => ENABLED WatchdogFire

\* C10, step part: no step re-arms, extends or cancels the armed timer
C10_Step ==
  wdState = "armed" =>
    /\ wdArmed' = wdArmed
    /\ wdDeadline' = wdDeadline
    /\ wdState' \in {"armed", "fired"}

\* C10: the watchdog is armed exactly once, before any task starts; no task
\* start or completion re-arms, extends or cancels it; when it fires the
\* process exits with status 1 whatever the tasks are doing.
C10_WatchdogIndependent == []C10_State /\ [][C10_Step]_vars

\* the watchdog fired during the upload of a later task
C10_Witness ==
  /\ wdState = "fired"
  /\ \E k \in TaskIds : k >= 2 /\ tasks[k].upload = "inflight" /\ tasks[k - 1].cb = "ok"

\* C11: every run eventually exits, whatever the store, the file system
\* and the upload do or fail to do, provided the armed timer fires.
C11_Terminates == <>Exited

\* the watchdog ended a run whose store cursor never ended
C11_Witness ==
  /\ wdState = "fired"
  /\ \E k \in TaskIds : tasks[k].cursor = "open" /\ tasks[k].upload = "none"

\* C12 (as claimed): without `all`, series is handed exactly two tasks.
C12_ExactlyTwoTasks ==
  (pc = "async" /\ argv2 # "all") => Len(tasks) = 2

\* C13 (as claimed): a concluded upload attempt, also one whose file was
\* removed by another actor meanwhile, has invoked the task's callback with
\* the upload's outcome.
C13_ExternalCleanupTolerated ==
  \A k \in TaskIds :
    /\ tasks[k].upload = "ended" => (tasks[k].cb = "ok" /\ tasks[k].cbs = 1)
    /\ tasks[k].upload = "errored" =>
         (tasks[k].cb = "err" /\ tasks[k].err = UploadError /\ tasks[k].cbs = 1)

\* C14 (as claimed): a task of which a stage failed has invoked its callback
\* with an error, so that the final callback ran with it.
C14_StageFailureReported ==
  \A k \in TaskIds :
    tasks[k].fault # "none" =>
      (tasks[k].cb = "err" /\ tasks[k].cbs >= 1 /\ exitCode = 1)

\* C18: a task that read the reference value r queries from the first to
\* the last tick of the calendar day before r's day, and names its file
\* after that day.
C18_WindowAndFileAgree ==
  \A k \in TaskIds :
    Started(tasks[k]) =>
      LET day == (tasks[k].ref \div TicksPerDay) - 1
      IN /\ tasks[k].lo = day * TicksPerDay
         /\ tasks[k].hi = day * TicksPerDay + (TicksPerDay - 1)
         /\ tasks[k].lo < tasks[k].hi
         /\ tasks[k].file = day

\* a task read a reference value that is not the start of a day
C18_Witness ==
  \E k \in TaskIds :
    Started(tasks[k]) /\ tasks[k].ref # StartOfDay(tasks[k].ref)

\* C19: no task's completion callback is invoked twice, no task is called
\* twice and the process terminates at most once.
C19_SingleCompletion ==
  /\ \A k \in TaskIds : tasks[k].cbs <= 1 /\ tasks[k].calls <= 1
  /\ \A k \in TaskIds : tasks[k].cb # "none" <=> tasks[k].cbs = 1
  /\ exits <= 1

\* the encoder failed a task whose write stream was still open
C19_Witness ==
  \E k \in TaskIds :
    tasks[k].cbs = 1 /\ tasks[k].err = EncodingError /\ tasks[k].wstream = "open"

\* the value of `date` when the enumeration finished
EnumEnd == Add1Day(tasks[Len(tasks)].pushedAt)

\* C20: the task that runs k-th exports the day k days before the day of
\* the date cursor at the end of the enumeration; the exported days are
\* pairwise distinct and consecutive.
C20_ExportedDays ==
  /\ \A k \in TaskIds :
       Started(tasks[k]) => tasks[k].file = FormatDay(EnumEnd) - k
  /\ \A j, k \in TaskIds :
       (j < k /\ Started(tasks[k])) => tasks[j].file # tasks[k].file
  /\ \A k \in TaskIds :
       (k > 1 /\ Started(tasks[k])) => tasks[k].file = tasks[k - 1].file - 1

\* a run of three tasks completed
C20_Witness ==
  /\ Len(tasks) >= 3
  /\ \A k \in TaskIds : tasks[k].cb = "ok"

\* C15: when the write stream of a day has finished, the file holds the
\* header row followed by one row per emitted record, the i-th row being the
\* cells of the i-th record with date and coordinates flattened.
FlatCells(data) ==
  [i \in 1..Len(Columns) |->
     CASE Columns[i] = "utc" -> data["date"].utc
       [] Columns[i] = "local" -> data["date"].local
       [] Columns[i] = "latitude" ->
            IF Has(data, "coordinates") THEN data["coordinates"].latitude ELSE ""
       [] Columns[i] = "longitude" ->
            IF Has(data, "coordinates") THEN data["coordinates"].longitude ELSE ""
       [] OTHER -> IF Has(data, Columns[i]) THEN data[Columns[i]] ELSE ""]

C15_NoDropNoReorder ==
  pstate.finished =>
    /\ Len(fileRows) = Len(emitted) + 1
    /\ fileRows[1] = HeaderRow
    /\ \A i \in 1..Len(emitted) : fileRows[i + 1] = FlatCells(emitted[i].data)

\* a day of MaxRecords different records, one of them without coordinates,
\* was written completely
C15_Witness ==
  /\ pstate.finished
  /\ Len(emitted) = MaxRecords
  /\ \E i, j \in 1..Len(emitted) : emitted[i] # emitted[j]
  /\ \E i \in 1..Len(emitted) : ~Has(emitted[i].data, "coordinates")

\* C16: transform turns every emitted record that carries `date` into a
\* record with utc and local from date and without date; with latitude and
\* longitude from coordinates and without coordinates when there are
\* coordinates, and without latitude and longitude (empty cells) when there
\* are none; every other field is kept and nothing else is added; the
\* emitted object itself is left as it was.
C16_Flattening ==
  \A i \in 1..Len(emitted) :
    LET in == emitted[i].data
        out == outs[i].data
        others == (DOMAIN in) \ {"date", "coordinates"}
    IN Has(in, "date") =>
         /\ ~outs[i].threw
         /\ outs[i].pushed
         /\ Has(out, "utc") /\ out["utc"] = in["date"].utc
         /\ Has(out, "local") /\ out["local"] = in["date"].local
         /\ ~Has(out, "date")
         /\ ~Has(out, "coordinates")
         /\ Has(in, "coordinates") =>
              /\ Has(out, "latitude") /\ out["latitude"] = in["coordinates"].latitude
              /\ Has(out, "longitude") /\ out["longitude"] = in["coordinates"].longitude
         /\ ~Has(in, "coordinates") =>
              /\ ~Has(out, "latitude") /\ ~Has(out, "longitude")
              /\ Row(out)[9] = "" /\ Row(out)[10] = ""
         /\ \A f \in others : Has(out, f) /\ out[f] = in[f]
         /\ (DOMAIN out) \subseteq (others \cup {"utc", "local", "latitude", "longitude"})
         /\ after[i] = emitted[i]

\* records with and without coordinates have been flattened
C16_Witness ==
  /\ \E i \in 1..Len(emitted) :
       Has(emitted[i].data, "date") /\ Has(emitted[i].data, "coordinates")
  /\ \E i \in 1..Len(emitted) :
       Has(emitted[i].data, "date") /\ ~Has(emitted[i].data, "coordinates")

\* C17 (as claimed): transform applied to a record it has flattened
\* completes without an error and returns the same utc, local, latitude and
\* longitude, i.e. the same record.
C17_Idempotent ==
  \A i \in 1..Len(again) :
    /\ ~again[i].res.threw
    /\ again[i].res.data = again[i].input

====
